---------------------------- MODULE Spec2Model ----------------------------
(***************************************************************************)
(* A model of app.py, the lead generator "Google Places + surfaces via     *)
(* Overpass".  Each function of the pipeline is a small state machine:     *)
(*                                                                         *)
(*   build_france_grid      SpecGrid     (lat, lon, pts, gpc)              *)
(*   search_places_text     SpecSearch   (spc, resp, results, served, ...) *)
(*   enrich_place_details   SpecEnrich   (epc, edf, eidx, detail, ...)     *)
(*     its extraction loop  SpecAdmin    (detail, region, department)      *)
(*   get_building_polygon   SpecPoly     (ppc, el, ek, polys, footprint)   *)
(*   attach_surfaces        SpecSurf     (apc, adf, amin, ai, afps, ...)   *)
(*   main                   SpecMain     (mpc, dept_filter, ..., gdf)      *)
(*                                                                         *)
(* The upstream services (Google Places text search and details, Overpass) *)
(* are the environment: what they answer is chosen nondeterministically    *)
(* from small sets.  A specification moves only the variables of its own   *)
(* function; the others rest at their idle values.                         *)
(***************************************************************************)
EXTENDS Integers, Sequences, FiniteSets, TLC

VARIABLES
    \* build_france_grid
    lat, lon, pts, gpc,
    \* search_places_text
    spc, resp, results, served, slog, sframe,
    \* enrich_place_details
    epc, edf, eidx, detail, region, department, out, elog,
    \* get_building_polygon
    ppc, el, ek, polys, footprint,
    \* attach_surfaces
    apc, adf, amin, ai, afps, recs, agdf,
    \* main
    mpc, dept_filter, region_filter, min_area, frames, batches, queries,
    failed, df_pl, df_det, gdf

gridVars   == <<lat, lon, pts, gpc>>
searchVars == <<spc, resp, results, served, slog, sframe>>
enrichVars == <<epc, edf, eidx, detail, region, department, out, elog>>
polyVars   == <<ppc, el, ek, polys, footprint>>
surfVars   == <<apc, adf, amin, ai, afps, recs, agdf>>
mainVars   == <<mpc, dept_filter, region_filter, min_area, frames, batches,
                queries, failed, df_pl, df_det, gdf>>
vars == <<gridVars, searchVars, enrichVars, polyVars, surfVars, mainVars>>

\* The variables a function leaves alone: those of the other functions.
notGrid == <<searchVars, enrichVars, polyVars, surfVars, mainVars>>
notSearch == <<gridVars, enrichVars, polyVars, surfVars, mainVars>>
notEnrich == <<gridVars, searchVars, polyVars, surfVars, mainVars>>
notPoly == <<gridVars, searchVars, enrichVars, surfVars, mainVars>>
notSurf == <<gridVars, searchVars, enrichVars, polyVars, mainVars>>
notMain == <<gridVars, searchVars, enrichVars, polyVars, surfVars>>

\* Python's None, for the nullable string fields (region, department, token).
None == "None"

(***************************************************************************)
(* Generic helpers.                                                        *)
(***************************************************************************)
\* All sequences over S of length at most n.
SeqUpTo(S, n) == UNION {[1..k -> S] : k \in 0..n}

\* All sequences over S of length at most n without a repeated element.
SeqNoDup(S, n) ==
    {s \in SeqUpTo(S, n) : \A i, j \in 1..Len(s) : s[i] = s[j] => i = j}

\* pd.concat(frames, ignore_index=True): the rows of the frames, in order.
RECURSIVE concat(_)
concat(fs) == IF fs = <<>> THEN <<>> ELSE Head(fs) \o concat(Tail(fs))

\* The mutant of drop_duplicates: keep="last" instead of the default "first".
drop_duplicates_last(rows) ==
    LET idx == SelectSeq([i \in 1..Len(rows) |-> i],
                         LAMBDA i : \A j \in (i + 1)..Len(rows) :
                                       rows[j].place_id # rows[i].place_id)
    IN  [k \in 1..Len(idx) |-> rows[idx[k]]]

\* DataFrame.drop_duplicates('place_id'): keep the first row of each place_id,
\* in the order of the frame (an empty frame is returned as it is).
drop_duplicates(rows) ==
    LET idx == SelectSeq([i \in 1..Len(rows) |-> i],
                         LAMBDA i : \A j \in 1..(i - 1) :
                                       rows[j].place_id # rows[i].place_id)
    IN  [k \in 1..Len(idx) |-> rows[idx[k]]]

(***************************************************************************)
(* build_france_grid.  Coordinates are in tenths of a degree, so that the  *)
(* bounds 41.0, 51.5, -5.5, 9.5 and the steps 0.5, 0.7 are integers.  The  *)
(* latitudes are exact in binary floating point (multiples of 0.5); the    *)
(* longitudes -5.5 + 0.7k carry a rounding error of about 1e-15 and stay   *)
(* 0.3 degree away from the bound they are compared to, so the comparisons *)
(* come out as in exact arithmetic.                                        *)
(***************************************************************************)
LAT_MIN  == 410
LAT_MAX  == 515
LON_MIN  == -55
LON_MAX  == 95
STEP_LAT == 5
STEP_LON == 7

\* The mutant of LatInRange: a strict comparison misses the last row.
LatInRangeStrict(x) == x < LAT_MAX

\* while lat <= LAT_MAX
LatInRange(x) == x <= LAT_MAX

\* while lon <= LON_MAX
LonInRange(x) == x <= LON_MAX

GridInit ==
    /\ lat = LAT_MIN
    /\ lon = LON_MIN
    /\ pts = <<>>
    /\ gpc = "outer"

GridIdle ==
    /\ lat = 0
    /\ lon = 0
    /\ pts = <<>>
    /\ gpc = "idle"

\* The test of the outer loop: enter the row (lon = LON_MIN) or return pts.
GridOuter ==
    /\ gpc = "outer"
    /\ IF LatInRange(lat)
       THEN /\ lon' = LON_MIN
            /\ gpc' = "inner"
       ELSE /\ gpc' = "done"
            /\ lon' = lon
    /\ UNCHANGED <<lat, pts>>
    /\ UNCHANGED notGrid

\* One turn of the inner loop: append (lat, lon) and step the longitude, or
\* leave the row and step the latitude.
GridInner ==
    /\ gpc = "inner"
    /\ IF LonInRange(lon)
       THEN /\ pts' = Append(pts, <<lat, lon>>)
            /\ lon' = lon + STEP_LON
            /\ UNCHANGED <<lat, gpc>>
       ELSE /\ lat' = lat + STEP_LAT
            /\ gpc' = "outer"
            /\ UNCHANGED <<lon, pts>>
    /\ UNCHANGED notGrid

GridNext == GridOuter \/ GridInner

\* estimate_api_calls: one text search and one detail call per grid point.
estimate_api_calls(grid_pts) == Len(grid_pts) * 2

(***************************************************************************)
(* search_places_text.  The text search service answers a call with a page *)
(* of results and, when more pages follow, a continuation token.  The      *)
(* token of the k-th page served is k; 0 stands for a response without the *)
(* key 'next_page_token'.  slog is the sequence of what the function does  *)
(* to the outside: its calls (with the token passed, 0 for none) and its   *)
(* sleeps.  served is the sequence of the responses the service has given.  *)
(***************************************************************************)
MaxPages   == 3
MaxPageLen == 1
PAGE_DELAY == 2

PlaceIds  == {"a", "b"}
Locations == {[lat |-> 1, lng |-> 5], [lat |-> 2, lng |-> 6]}

\* One result of the service: a place_id and geometry.location.
Places == [place_id : PlaceIds, location : Locations]

\* The pages the service can answer with.
Pages == SeqUpTo(Places, MaxPageLen)

\* The row built from one result.
RowOf(p) == [place_id  |-> p.place_id,
             latitude  |-> p.location.lat,
             longitude |-> p.location.lng]

\* rows = [...] for p in results
Rows(rs) == [i \in 1..Len(rs) |-> RowOf(rs[i])]

\* return pd.DataFrame(rows).drop_duplicates('place_id')
FrameOf(rs) == drop_duplicates(Rows(rs))

\* The mutant of Accumulate: the page replaces the results gathered so far.
AccumulateOverwrite(acc, page) == page

\* results += resp.get('results', [])
Accumulate(acc, page) == acc \o page

\* 'next_page_token' in resp
HasToken(r) == r.next_page_token # 0

NoResp == [results |-> <<>>, next_page_token |-> 0]

\* The query text: keyword + " in " + department, else region, else France.
ScopeQualifier(reg, dep) ==
    IF dep # None THEN [kind |-> "department", area |-> dep]
    ELSE IF reg # None THEN [kind |-> "region", area |-> reg]
    ELSE [kind |-> "country", area |-> "France"]

SearchInit ==
    /\ spc = "first"
    /\ resp = NoResp
    /\ results = <<>>
    /\ served = <<>>
    /\ slog = <<>>
    /\ sframe = <<>>

SearchIdle ==
    /\ spc = "idle"
    /\ resp = NoResp
    /\ results = <<>>
    /\ served = <<>>
    /\ slog = <<>>
    /\ sframe = <<>>

\* What the service may answer to the next call: any page, with a token
\* unless the chain has reached its last page.
Answers ==
    {[results |-> pg, next_page_token |-> t] :
        pg \in Pages,
        t \in {0} \cup (IF Len(served) + 1 < MaxPages
                        THEN {Len(served) + 1} ELSE {})}

\* resp = gmaps.places(query=query, language='fr'); results = resp.get(...)
SearchFirst ==
    /\ spc = "first"
    /\ slog' = Append(slog, [ev |-> "call", token |-> 0, secs |-> 0])
    /\ \/ \E a \in Answers :
            /\ resp' = a
            /\ results' = a.results
            /\ served' = Append(served, a)
            /\ spc' = "loop"
       \/ /\ spc' = "raised"
          /\ UNCHANGED <<resp, results, served>>
    /\ UNCHANGED sframe
    /\ UNCHANGED notSearch

\* while 'next_page_token' in resp: time.sleep(2)
SearchSleep ==
    /\ spc = "loop"
    /\ HasToken(resp)
    /\ slog' = Append(slog, [ev |-> "sleep", token |-> 0, secs |-> PAGE_DELAY])
    /\ spc' = "page"
    /\ UNCHANGED <<resp, results, served, sframe>>
    /\ UNCHANGED notSearch

\* resp = gmaps.places(..., page_token=resp['next_page_token']); results += ...
SearchPage ==
    /\ spc = "page"
    /\ slog' = Append(slog, [ev |-> "call", token |-> resp.next_page_token, secs |-> 0])
    /\ \/ \E a \in Answers :
            /\ resp' = a
            /\ results' = Accumulate(results, a.results)
            /\ served' = Append(served, a)
            /\ spc' = "loop"
       \/ /\ spc' = "raised"
          /\ UNCHANGED <<resp, results, served>>
    /\ UNCHANGED sframe
    /\ UNCHANGED notSearch

\* The loop ends at a response without a token: build the rows and return
\* the frame without duplicates.
SearchRows ==
    /\ spc = "loop"
    /\ ~HasToken(resp)
    /\ sframe' = FrameOf(results)
    /\ spc' = "done"
    /\ UNCHANGED <<resp, results, served, slog>>
    /\ UNCHANGED notSearch

SearchNext == SearchFirst \/ SearchSleep \/ SearchPage \/ SearchRows

(***************************************************************************)
(* enrich_place_details.  The details service answers a lookup with the    *)
(* address components of the place, or the lookup raises.  Of the fields   *)
(* of the enriched row the model keeps place_id, latitude, longitude,      *)
(* region and department; the contact fields (name, phone, website, links) *)
(* are copied from the answer and read by nothing here.  elog is the       *)
(* sequence of what the function does to the outside: lookups (and how     *)
(* each ended), st.error messages and sleeps.                              *)
(***************************************************************************)
MaxCands     == 2
MaxComps     == 2
LOOKUP_DELAY == 1

LEVEL_1 == "administrative_area_level_1"
LEVEL_2 == "administrative_area_level_2"

\* The candidates of a detail batch: three places, at either location.
CandIds == {"a", "b", "c"}

\* An address component: its types and its long_name.
TypeSets   == {{"locality"}, {LEVEL_1}, {LEVEL_2}, {LEVEL_1, LEVEL_2}}
LongNames  == {"Bretagne", "Normandie", "Finistere"}
Components == [types : TypeSets, long_name : LongNames]

\* detail.get('address_components', []) of an answer, up to MaxComps long.
ComponentLists == SeqUpTo(Components, MaxComps)

\* The answers the lookups of a batch are drawn from.
SampleDetails ==
    { <<>>,
      <<[types |-> {LEVEL_1}, long_name |-> "Bretagne"],
        [types |-> {LEVEL_2}, long_name |-> "Finistere"]>>,
      <<[types |-> {"locality"}, long_name |-> "Finistere"],
        [types |-> {LEVEL_1}, long_name |-> "Normandie"]>> }

\* The frames handed to enrichment: rows of distinct place_id.
CandRows == [place_id : CandIds, latitude : {1, 2}, longitude : {5}]
CandFrames ==
    {f \in SeqUpTo(CandRows, MaxCands) :
        \A i, j \in 1..Len(f) : f[i].place_id = f[j].place_id => i = j}

\* for comp in components: if tag in comp.types: name = comp.long_name
\* The loop has no break: every component carrying the tag assigns.
RECURSIVE TaggedName(_, _, _)
TaggedName(comps, tag, acc) ==
    IF comps = <<>> THEN acc
    ELSE TaggedName(Tail(comps), tag,
                    IF tag \in Head(comps).types
                    THEN Head(comps).long_name ELSE acc)

\* region = None; ...; the loop over the address components
RegionOf(comps) == TaggedName(comps, LEVEL_1, None)

\* department = None; ...; the loop over the address components
DepartmentOf(comps) == TaggedName(comps, LEVEL_2, None)

\* out.append({...}): the enriched row of candidate r.
EnrichedRow(r, comps) ==
    [place_id   |-> r.place_id,
     latitude   |-> r.latitude,
     longitude  |-> r.longitude,
     region     |-> RegionOf(comps),
     department |-> DepartmentOf(comps)]

\* The mutant of AfterError: a failed lookup ends the loop (break).
AfterErrorBreak(i, n) == n + 1

\* except ...: st.error(...); continue -- on to the next candidate.
AfterError(i, n) == i + 1

EnrichIdle ==
    /\ epc = "idle"
    /\ edf = <<>>
    /\ eidx = 0
    /\ detail = <<>>
    /\ region = None
    /\ department = None
    /\ out = <<>>
    /\ elog = <<>>

EnrichInit ==
    /\ epc = "loop"
    /\ edf \in CandFrames
    /\ eidx = 1
    /\ detail = <<>>
    /\ region = None
    /\ department = None
    /\ out = <<>>
    /\ elog = <<>>

\* detail = gmaps.place(place_id=r['place_id']).get('result', {}), which
\* either answers or raises; on an exception st.error and continue.
EnrichLookup ==
    /\ epc = "loop"
    /\ eidx <= Len(edf)
    /\ \/ \E d \in SampleDetails :
            /\ detail' = d
            /\ elog' = Append(elog, [ev |-> "lookup_ok", secs |-> 0,
                                     place_id |-> edf[eidx].place_id])
            /\ epc' = "row"
            /\ UNCHANGED eidx
       \/ /\ elog' = elog \o
                <<[ev |-> "lookup_failed", secs |-> 0,
                   place_id |-> edf[eidx].place_id],
                  [ev |-> "st_error", secs |-> 0,
                   place_id |-> edf[eidx].place_id]>>
          /\ eidx' = AfterError(eidx, Len(edf))
          /\ UNCHANGED <<detail, epc>>
    /\ UNCHANGED <<edf, region, department, out>>
    /\ UNCHANGED notEnrich

\* The rest of the loop body after a lookup that answered: region and
\* department from the components, out.append, time.sleep(1).
EnrichAppend ==
    /\ epc = "row"
    /\ region' = RegionOf(detail)
    /\ department' = DepartmentOf(detail)
    /\ out' = Append(out, EnrichedRow(edf[eidx], detail))
    /\ elog' = Append(elog, [ev |-> "sleep", secs |-> LOOKUP_DELAY,
                             place_id |-> edf[eidx].place_id])
    /\ eidx' = eidx + 1
    /\ epc' = "loop"
    /\ UNCHANGED <<edf, detail>>
    /\ UNCHANGED notEnrich

\* return pd.DataFrame(out)
EnrichReturn ==
    /\ epc = "loop"
    /\ eidx > Len(edf)
    /\ epc' = "done"
    /\ UNCHANGED <<edf, eidx, detail, region, department, out, elog>>
    /\ UNCHANGED notEnrich

EnrichNext == EnrichLookup \/ EnrichAppend \/ EnrichReturn

\* The extraction of region and department alone, on any component list.
AdminInit ==
    /\ epc = "admin"
    /\ edf = <<>>
    /\ eidx = 0
    /\ detail \in ComponentLists
    /\ region = None
    /\ department = None
    /\ out = <<>>
    /\ elog = <<>>

AdminExtract ==
    /\ epc = "admin"
    /\ region' = RegionOf(detail)
    /\ department' = DepartmentOf(detail)
    /\ epc' = "admin_done"
    /\ UNCHANGED <<edf, eidx, detail, out, elog>>
    /\ UNCHANGED notEnrich

AdminNext == AdminExtract

(***************************************************************************)
(* get_building_polygon.  A geometry is the set of cells of a small grid   *)
(* it covers; its area is the number of cells, the union of geometries is  *)
(* the union of the sets.  An element of the Overpass answer has a type,   *)
(* may carry a geometry, and its ring is "ok" (Polygon(coords) is valid),  *)
(* "invalid" (is_valid is False: a self-intersecting ring, which may still *)
(* have an area) or "error" (Polygon(coords) raises: too few points).  A   *)
(* valid ring over no cell is the degenerate outline of area 0.            *)
(***************************************************************************)
MaxElems  == 2
PolyCells == 3

Cells == 1..PolyCells

Elements ==
    {[type |-> t, has_geometry |-> FALSE, ring |-> "none", cells |-> {}] :
        t \in {"way", "node"}}
    \cup {[type |-> "way", has_geometry |-> TRUE, ring |-> "error",
           cells |-> {}]}
    \cup [type : {"way"}, has_geometry : {TRUE}, ring : {"ok", "invalid"},
          cells : SUBSET Cells]

\* The answer of the function when it finds nothing: Python's None.
NoPoly == [kind |-> "None", cells |-> {}]

\* shapely's area of a geometry, in cells.
Area(g) == Cardinality(g)

\* The mutant of Accepted: the is_valid test is left out.
AcceptedAnyRing(e) ==
    /\ e.type = "way"
    /\ e.has_geometry
    /\ e.ring # "error"
    /\ Area(e.cells) > 0

\* if e['type']=='way' and 'geometry' in e: try: p = Polygon(coords);
\* if p.is_valid and p.area > 0 -- an exception of Polygon() is swallowed.
Accepted(e) ==
    /\ e.type = "way"
    /\ e.has_geometry
    /\ e.ring = "ok"
    /\ Area(e.cells) > 0

\* shapely.ops.unary_union of a list of polygons.
unary_union(ps) == UNION {ps[i] : i \in 1..Len(ps)}

PolyIdle ==
    /\ ppc = "idle"
    /\ el = <<>>
    /\ ek = 0
    /\ polys = <<>>
    /\ footprint = NoPoly

\* el = requests.post(...).json().get('elements', []); polys = []
PolyInit ==
    /\ ppc = "loop"
    /\ el \in SeqUpTo(Elements, MaxElems)
    /\ ek = 1
    /\ polys = <<>>
    /\ footprint = NoPoly

\* One turn of the loop over the elements.
PolyElement ==
    /\ ppc = "loop"
    /\ ek <= Len(el)
    /\ polys' = IF Accepted(el[ek]) THEN Append(polys, el[ek].cells) ELSE polys
    /\ ek' = ek + 1
    /\ UNCHANGED <<ppc, el, footprint>>
    /\ UNCHANGED notPoly

\* return unary_union(polys) if polys else None
PolyReturn ==
    /\ ppc = "loop"
    /\ ek > Len(el)
    /\ footprint' = IF polys # <<>>
                    THEN [kind |-> "Polygon", cells |-> unary_union(polys)]
                    ELSE NoPoly
    /\ ppc' = "done"
    /\ UNCHANGED <<el, ek, polys>>
    /\ UNCHANGED notPoly

PolyNext == PolyElement \/ PolyReturn

(***************************************************************************)
(* calculate_surface_m2 and attach_surfaces.  A cell of the grid stands    *)
(* for CellM2 square metres: poly.area * 111000**2 is the number of cells  *)
(* times CellM2.  The footprint get_building_polygon finds for a row is    *)
(* the environment's choice: None, or a polygon over the first k cells;    *)
(* afps is the sequence of the footprints found so far.                    *)
(***************************************************************************)
MaxRows   == 3
SurfCells == 5
CellM2    == 5000
MIN_AREA_DEFAULT == 10000

\* return poly.area * (111000**2)
calculate_surface_m2(poly) == Area(poly.cells) * CellM2

\* if poly: a shapely geometry is false when it is empty, None is false.
Truthy(poly) == poly.kind # "None" /\ poly.cells # {}

\* surf = calculate_surface_m2(poly) if poly else 0
SurfaceOf(poly) == IF Truthy(poly) THEN calculate_surface_m2(poly) ELSE 0

\* The mutant of Retained: a strict comparison drops the boundary.
RetainedStrict(surf, threshold) == surf > threshold

\* if surf >= min_area
Retained(surf, threshold) == surf >= threshold

\* Point(r['longitude'], r['latitude'])
Point(x, y) == [kind |-> "Point", cells |-> {}, x |-> x, y |-> y]

\* d = r.to_dict(); d.update({'surface_m2': surf, 'geometry': poly or Point})
LeadOf(r, poly) ==
    [place_id   |-> r.place_id,
     latitude   |-> r.latitude,
     longitude  |-> r.longitude,
     region     |-> r.region,
     department |-> r.department,
     surface_m2 |-> SurfaceOf(poly),
     geometry   |-> IF Truthy(poly) THEN poly
                    ELSE Point(r.longitude, r.latitude)]

\* What get_building_polygon may return for a row.
Footprints(n) ==
    {NoPoly} \cup {[kind |-> "Polygon", cells |-> 1..k] : k \in 1..n}

\* The enriched rows of the frames attach_surfaces is tried on.
SurfRow(i) == [place_id |-> i, latitude |-> i, longitude |-> 5,
               region |-> None, department |-> None]

\* The thresholds tried: none, the default, one above the default.
MinAreas == {0, MIN_AREA_DEFAULT, MIN_AREA_DEFAULT + 1}

SurfIdle ==
    /\ apc = "idle"
    /\ adf = <<>>
    /\ amin = 0
    /\ ai = 0
    /\ afps = <<>>
    /\ recs = <<>>
    /\ agdf = <<>>

SurfInit ==
    /\ apc = "loop"
    /\ adf \in {[i \in 1..n |-> SurfRow(i)] : n \in 0..MaxRows}
    /\ amin \in MinAreas
    /\ ai = 1
    /\ afps = <<>>
    /\ recs = <<>>
    /\ agdf = <<>>

\* One turn of the loop over the rows: the footprint, its surface, the test.
SurfRowStep ==
    /\ apc = "loop"
    /\ ai <= Len(adf)
    /\ \E poly \in Footprints(SurfCells) :
          /\ afps' = Append(afps, poly)
          /\ recs' = IF Retained(SurfaceOf(poly), amin)
                     THEN Append(recs, LeadOf(adf[ai], poly))
                     ELSE recs
    /\ ai' = ai + 1
    /\ UNCHANGED <<apc, adf, amin, agdf>>
    /\ UNCHANGED notSurf

\* return gpd.GeoDataFrame(recs, ...), or the empty frame when recs is empty
SurfReturn ==
    /\ apc = "loop"
    /\ ai > Len(adf)
    /\ agdf' = recs
    /\ apc' = "done"
    /\ UNCHANGED <<adf, amin, ai, afps, recs>>
    /\ UNCHANGED notSurf

SurfNext == SurfRowStep \/ SurfReturn

(***************************************************************************)
(* main, from the click on "Rechercher".  A call of search_places_text is  *)
(* one step: the service's whole chain of pages for the query (batches     *)
(* keeps it) or an exception of the client, which nothing in main catches. *)
(* enrich_place_details and attach_surfaces are one step each, computed    *)
(* row by row as their loops do.  queries is the sequence of the scopes    *)
(* queried and failed the sequence of the scopes whose query raised.       *)
(***************************************************************************)
MaxBatch == 2

DeptCodes   == {"01", "02"}
RegionNames == {"Bretagne"}

\* The results of one query, all pages together.
Batches == SeqUpTo(Places, MaxBatch)

\* What a detail lookup may do in a run: raise, or answer.
Outcomes == {[ok |-> FALSE, components |-> <<>>]}
            \cup {[ok |-> TRUE, components |-> d] : d \in SampleDetails}

\* The footprints found in a run: none, or a building of two cells.
MainFootprints == {NoPoly, [kind |-> "Polygon", cells |-> {1, 2}]}

\* The scopes main queries: the departments if any, else the regions if
\* any, else the whole country.
Scopes(deps, regs) ==
    IF deps # <<>>
    THEN [i \in 1..Len(deps) |-> ScopeQualifier(None, deps[i])]
    ELSE IF regs # <<>>
    THEN [i \in 1..Len(regs) |-> ScopeQualifier(regs[i], None)]
    ELSE <<ScopeQualifier(None, None)>>

\* enrich_place_details(df, key) when the lookup of row i does oc[i].
RECURSIVE enrich_place_details(_, _)
enrich_place_details(df, oc) ==
    IF df = <<>> THEN <<>>
    ELSE IF ~Head(oc).ok
    THEN enrich_place_details(Tail(df), Tail(oc))
    ELSE <<EnrichedRow(Head(df), Head(oc).components)>>
         \o enrich_place_details(Tail(df), Tail(oc))

\* attach_surfaces(df, min_area) when the footprint of row i is fps[i].
RECURSIVE attach_surfaces(_, _, _)
attach_surfaces(df, fps, threshold) ==
    IF df = <<>> THEN <<>>
    ELSE (IF Retained(SurfaceOf(Head(fps)), threshold)
          THEN <<LeadOf(Head(df), Head(fps))>> ELSE <<>>)
         \o attach_surfaces(Tail(df), Tail(fps), threshold)

MainIdle ==
    /\ mpc = "idle"
    /\ dept_filter = <<>>
    /\ region_filter = <<>>
    /\ min_area = 0
    /\ frames = <<>>
    /\ batches = <<>>
    /\ queries = <<>>
    /\ failed = <<>>
    /\ df_pl = <<>>
    /\ df_det = <<>>
    /\ gdf = <<>>

\* The sidebar when the button is pressed: the two multiselects and the
\* minimal surface; frames = [].
MainInit ==
    /\ mpc = "search"
    /\ dept_filter \in SeqNoDup(DeptCodes, Cardinality(DeptCodes))
    /\ region_filter \in SeqNoDup(RegionNames, Cardinality(RegionNames))
    /\ min_area \in {0, MIN_AREA_DEFAULT}
    /\ frames = <<>>
    /\ batches = <<>>
    /\ queries = <<>>
    /\ failed = <<>>
    /\ df_pl = <<>>
    /\ df_det = <<>>
    /\ gdf = <<>>

\* frames.append(search_places_text(keyword, key, department=d / region=r)):
\* the next query of the loop answers, or raises out of main.
MainSearch ==
    /\ mpc = "search"
    /\ Len(queries) < Len(Scopes(dept_filter, region_filter))
    /\ LET q == Scopes(dept_filter, region_filter)[Len(queries) + 1] IN
       /\ queries' = Append(queries, q)
       /\ \/ \E b \in Batches :
               /\ batches' = Append(batches, b)
               /\ frames' = Append(frames, FrameOf(b))
               /\ UNCHANGED <<mpc, failed>>
          \/ /\ failed' = Append(failed, q)
             /\ mpc' = "raised"
             /\ UNCHANGED <<batches, frames>>
    /\ UNCHANGED <<dept_filter, region_filter, min_area, df_pl, df_det, gdf>>
    /\ UNCHANGED notMain

\* df_pl = pd.concat(frames, ignore_index=True).drop_duplicates("place_id")
MainConcat ==
    /\ mpc = "search"
    /\ Len(queries) = Len(Scopes(dept_filter, region_filter))
    /\ df_pl' = drop_duplicates(concat(frames))
    /\ mpc' = "enrich"
    /\ UNCHANGED <<dept_filter, region_filter, min_area, frames, batches,
                   queries, failed, df_det, gdf>>
    /\ UNCHANGED notMain

\* df_det = enrich_place_details(df_pl, key)
MainEnrich ==
    /\ mpc = "enrich"
    /\ \E oc \in [1..Len(df_pl) -> Outcomes] :
          df_det' = enrich_place_details(df_pl, oc)
    /\ mpc' = "surfaces"
    /\ UNCHANGED <<dept_filter, region_filter, min_area, frames, batches,
                   queries, failed, df_pl, gdf>>
    /\ UNCHANGED notMain

\* gdf = attach_surfaces(df_det, min_area); st.success(len(gdf) leads)
MainSurfaces ==
    /\ mpc = "surfaces"
    /\ \E fps \in [1..Len(df_det) -> MainFootprints] :
          gdf' = attach_surfaces(df_det, fps, min_area)
    /\ mpc' = "done"
    /\ UNCHANGED <<dept_filter, region_filter, min_area, frames, batches,
                   queries, failed, df_pl, df_det>>
    /\ UNCHANGED notMain

MainNext == MainSearch \/ MainConcat \/ MainEnrich \/ MainSurfaces

(***************************************************************************)
(* The specifications, one per function.                                   *)
(***************************************************************************)
InitGrid ==
    GridInit /\ SearchIdle /\ EnrichIdle /\ PolyIdle /\ SurfIdle /\ MainIdle

SpecGrid == InitGrid /\ [][GridNext]_vars

InitSearch ==
    GridIdle /\ SearchInit /\ EnrichIdle /\ PolyIdle /\ SurfIdle /\ MainIdle

SpecSearch == InitSearch /\ [][SearchNext]_vars

InitEnrich ==
    GridIdle /\ SearchIdle /\ EnrichInit /\ PolyIdle /\ SurfIdle /\ MainIdle

SpecEnrich == InitEnrich /\ [][EnrichNext]_vars

InitAdmin ==
    GridIdle /\ SearchIdle /\ AdminInit /\ PolyIdle /\ SurfIdle /\ MainIdle

SpecAdmin == InitAdmin /\ [][AdminNext]_vars

InitPoly ==
    GridIdle /\ SearchIdle /\ EnrichIdle /\ PolyInit /\ SurfIdle /\ MainIdle

SpecPoly == InitPoly /\ [][PolyNext]_vars

InitSurf ==
    GridIdle /\ SearchIdle /\ EnrichIdle /\ PolyIdle /\ SurfInit /\ MainIdle

SpecSurf == InitSurf /\ [][SurfNext]_vars

InitMain ==
    GridIdle /\ SearchIdle /\ EnrichIdle /\ PolyIdle /\ SurfIdle /\ MainInit

SpecMain == InitMain /\ [][MainNext]_vars

(***************************************************************************)
(* The properties.                                                         *)
(***************************************************************************)
Range(f) == {f[i] : i \in DOMAIN f}

\* The indices 1..n, in order.
Indices(n) == [i \in 1..n |-> i]

\* C1: the frame handed to enrichment holds exactly one row per place_id
\* that occurs in any batch, and that row is the one of the first occurrence
\* of the place_id in batch order.
AllResults == concat(batches)
FirstIndex(p) ==
    CHOOSE i \in 1..Len(AllResults) :
        /\ AllResults[i].place_id = p
        /\ \A j \in 1..(i - 1) : AllResults[j].place_id # p
C1_DedupKeepsFirstOccurrence ==
    mpc = "enrich" =>
        /\ \A p \in {AllResults[i].place_id : i \in 1..Len(AllResults)} :
              /\ Cardinality({k \in 1..Len(df_pl) : df_pl[k].place_id = p}) = 1
              /\ \E k \in 1..Len(df_pl) : df_pl[k] = RowOf(AllResults[FirstIndex(p)])
        /\ \A k \in 1..Len(df_pl) :
              \E i \in 1..Len(AllResults) :
                  AllResults[i].place_id = df_pl[k].place_id

\* C1 witness: two batches share a place_id at different coordinates and the
\* frame handed to enrichment holds the one row of the first batch.
C1_Witness ==
    /\ mpc = "enrich"
    /\ Len(batches) = 2
    /\ Len(batches[1]) = 1
    /\ Len(batches[2]) = 1
    /\ batches[1][1].place_id = batches[2][1].place_id
    /\ batches[1][1].location # batches[2][1].location
    /\ df_pl = <<RowOf(batches[1][1])>>

\* C2: attach_surfaces keeps a row if and only if its surface is at least
\* min_area (0 for a row without footprint), in the order of the input.
C2_Kept ==
    SelectSeq(Indices(Len(afps)), LAMBDA i : SurfaceOf(afps[i]) >= amin)
C2_RetainedIffAtLeastMinArea ==
    /\ Len(recs) = Len(C2_Kept)
    /\ \A k \in 1..Len(recs) :
          /\ recs[k].place_id = adf[C2_Kept[k]].place_id
          /\ recs[k].surface_m2 = SurfaceOf(afps[C2_Kept[k]])
    /\ \A i \in 1..Len(afps) :
          afps[i] = NoPoly =>
              ((\E k \in 1..Len(recs) : recs[k].place_id = adf[i].place_id)
                  <=> amin = 0)
    /\ apc = "done" => agdf = recs

\* C2 witness: min_area 10000 and surfaces 5000, 10000 and 25000 give the
\* two leads of 10000 and 25000, in that order.
C2_Witness ==
    /\ apc = "done"
    /\ amin = 10000
    /\ Len(afps) = 3
    /\ [i \in 1..3 |-> SurfaceOf(afps[i])] = <<5000, 10000, 25000>>
    /\ Len(agdf) = 2
    /\ agdf[1].surface_m2 = 10000 /\ agdf[1].place_id = adf[2].place_id
    /\ agdf[2].surface_m2 = 25000 /\ agdf[2].place_id = adf[3].place_id

\* C3: every token a response carries is passed to exactly one later call, a
\* call with a token comes right after the sleep, no call follows a response
\* without token, and the results are the pages of the chain in order.
C3_Calls == SelectSeq(Indices(Len(slog)), LAMBDA i : slog[i].ev = "call")
C3_PaginationFollowsTokens ==
    \* the k-th call passes the token of response k-1 (none for the first)
    /\ \A k \in 1..Len(C3_Calls) :
          slog[C3_Calls[k]].token =
              IF k = 1 THEN 0 ELSE served[k - 1].next_page_token
    /\ \A k \in 2..Len(C3_Calls) : served[k - 1].next_page_token # 0
    \* each token is passed at most once, and once when the function returns
    /\ \A k \in 1..Len(served) :
          served[k].next_page_token # 0 =>
              /\ Cardinality({i \in 1..Len(slog) :
                     /\ slog[i].ev = "call"
                     /\ slog[i].token = served[k].next_page_token}) <= 1
              /\ spc = "done" =>
                     \E i \in 1..Len(slog) :
                         /\ slog[i].ev = "call"
                         /\ slog[i].token = served[k].next_page_token
    \* the delay comes right before a call with a token, and only there
    /\ \A i \in 1..Len(slog) :
          (slog[i].ev = "call" /\ slog[i].token # 0) =>
              /\ i > 1
              /\ slog[i - 1].ev = "sleep"
              /\ slog[i - 1].secs = PAGE_DELAY
    \* the loop ends at the first response without a token
    /\ \A k \in 1..(Len(served) - 1) : served[k].next_page_token # 0
    /\ spc = "done" =>
          /\ served # <<>>
          /\ served[Len(served)].next_page_token = 0
          /\ Len(C3_Calls) = Len(served)
          /\ results = concat([k \in 1..Len(served) |-> served[k].results])

\* C3 witness: a chain of three pages, each with a result, read to its end.
C3_Witness ==
    /\ spc = "done"
    /\ Len(served) = 3
    /\ \A k \in 1..3 : Len(served[k].results) = 1
    /\ Len(results) = 3
    /\ served[1].results # served[3].results

\* C4: a failed lookup drops its candidate and nothing else: every candidate
\* is looked up once, in order, the output holds the candidates whose lookup
\* answered, in order, each with its own place_id, latitude and longitude.
C4_Lookups ==
    SelectSeq(Indices(Len(elog)),
              LAMBDA i : elog[i].ev \in {"lookup_ok", "lookup_failed"})
C4_Answered ==
    SelectSeq(Indices(Len(C4_Lookups)),
              LAMBDA k : elog[C4_Lookups[k]].ev = "lookup_ok")
C4_FailedLookupDropsOnlyItsCandidate ==
    epc = "done" =>
        /\ Len(C4_Lookups) = Len(edf)
        /\ \A k \in 1..Len(edf) : elog[C4_Lookups[k]].place_id = edf[k].place_id
        /\ Len(out) = Len(C4_Answered)
        /\ \A k \in 1..Len(out) :
              /\ out[k].place_id = edf[C4_Answered[k]].place_id
              /\ out[k].latitude = edf[C4_Answered[k]].latitude
              /\ out[k].longitude = edf[C4_Answered[k]].longitude

\* C4 witness: the first of two lookups fails, the second answers and its
\* candidate is the one row of the output.
C4_Witness ==
    /\ epc = "done"
    /\ Len(edf) = 2
    /\ Len(C4_Lookups) = 2
    /\ elog[C4_Lookups[1]].ev = "lookup_failed"
    /\ elog[C4_Lookups[2]].ev = "lookup_ok"
    /\ Len(out) = 1
    /\ out[1].place_id = edf[2].place_id

\* C5: in a run over several departments or regions, a query that fails
\* costs the run only its own contribution: the run goes on, and the
\* candidates the other queries returned reach enrichment.
C5_FailedQueryLosesOnlyItsContribution ==
    (/\ Len(Scopes(dept_filter, region_filter)) > 1
     /\ failed # <<>>
     /\ \E i \in 1..Len(batches) : batches[i] # <<>>) =>
        /\ mpc # "raised"
        /\ mpc \in {"enrich", "surfaces", "done"} =>
               /\ df_pl = drop_duplicates(concat(frames))
               /\ df_pl # <<>>

\* C6: every lead of the final output has its region in the allowed regions
\* when some are given, and its department in the allowed departments when
\* some are given.
C6_OutputWithinFilters ==
    mpc = "done" =>
        \A k \in 1..Len(gdf) :
            /\ region_filter # <<>> => gdf[k].region \in Range(region_filter)
            /\ dept_filter # <<>> => gdf[k].department \in Range(dept_filter)

\* C7: get_building_polygon returns None exactly when no element is a way
\* with a geometry whose ring is valid and of positive area; otherwise the
\* union of exactly those outlines, of positive area, in which a region two
\* outlines share counts once.
C7_Valid ==
    {i \in 1..Len(el) : /\ el[i].type = "way"
                        /\ el[i].has_geometry
                        /\ el[i].ring = "ok"
                        /\ el[i].cells # {}}
C7_UnionOfValidOutlines ==
    /\ ppc \in {"loop", "done"}
    /\ ppc = "done" =>
          /\ footprint = NoPoly <=> C7_Valid = {}
          /\ C7_Valid # {} =>
                /\ footprint.kind = "Polygon"
                /\ footprint.cells = UNION {el[i].cells : i \in C7_Valid}
                /\ Area(footprint.cells) > 0
                /\ \A i, j \in C7_Valid :
                      (i # j /\ el[i].cells \cap el[j].cells # {}) =>
                          Area(footprint.cells) <
                              Area(UNION {el[k].cells : k \in C7_Valid \ {i, j}})
                              + Area(el[i].cells) + Area(el[j].cells)

\* C7 witness: two valid outlines that overlap in part, merged into a
\* footprint smaller than the sum of the two.
C7_Witness ==
    /\ ppc = "done"
    /\ C7_Valid = {1, 2}
    /\ el[1].cells \cap el[2].cells # {}
    /\ el[1].cells \ el[2].cells # {}
    /\ el[2].cells \ el[1].cells # {}
    /\ Area(footprint.cells) < Area(el[1].cells) + Area(el[2].cells)

\* C8, as amended: build_france_grid ends, every point lies in the closed
\* box, the points come latitude by latitude with the longitude stepping
\* from LON_MIN, and their number is (floor(10.5/0.5)+1) rows times
\* (floor(15/0.7)+1) columns, 22 * 22 = 484.
Floor(a, b) == a \div b
Ceil(a, b)  == (a + b - 1) \div b
C8_Rows == Floor(LAT_MAX - LAT_MIN, STEP_LAT) + 1
C8_Cols == Floor(LON_MAX - LON_MIN, STEP_LON) + 1
C8_InBox ==
    \A k \in 1..Len(pts) :
        /\ LAT_MIN <= pts[k][1] /\ pts[k][1] <= LAT_MAX
        /\ LON_MIN <= pts[k][2] /\ pts[k][2] <= LON_MAX
C8_GridCountFloor ==
    /\ gpc = "done" \/ ENABLED GridNext
    /\ Len(pts) <= C8_Rows * C8_Cols
    /\ C8_InBox
    /\ \A k \in 1..Len(pts) :
          pts[k] = <<LAT_MIN + STEP_LAT * ((k - 1) \div C8_Cols),
                     LON_MIN + STEP_LON * ((k - 1) % C8_Cols)>>
    /\ gpc = "done" => Len(pts) = C8_Rows * C8_Cols

\* C8 witness: the grid is complete, 484 points, the last one (51.5, 9.2).
C8_Witness ==
    /\ gpc = "done"
    /\ Len(pts) = 484
    /\ pts[1] = <<LAT_MIN, LON_MIN>>
    /\ pts[484] = <<LAT_MAX, 92>>

\* C8 as the claim states it: the number of points is (ceil(10.5/0.5)+1)
\* rows times (ceil(15/0.7)+1) columns, 22 * 23 = 506, all within the box.
C8_GridCountCeil ==
    gpc = "done" =>
        /\ C8_InBox
        /\ Len(pts) = (Ceil(LAT_MAX - LAT_MIN, STEP_LAT) + 1)
                      * (Ceil(LON_MAX - LON_MIN, STEP_LON) + 1)

\* C9: region is the name of the first component tagged
\* administrative_area_level_1, department the name of the first component
\* tagged administrative_area_level_2, None when no component has the tag.
RECURSIVE FirstTagged(_, _)
FirstTagged(comps, tag) ==
    IF comps = <<>> THEN None
    ELSE IF tag \in Head(comps).types THEN Head(comps).long_name
    ELSE FirstTagged(Tail(comps), tag)
C9_FirstTaggedComponent ==
    epc = "admin_done" =>
        /\ region = FirstTagged(detail, LEVEL_1)
        /\ department = FirstTagged(detail, LEVEL_2)

\* C10: between two successive lookups of a batch the function sleeps,
\* however the earlier lookup ended.
C10_DelayBetweenLookups ==
    \A k \in 1..(Len(C4_Lookups) - 1) :
        \E i \in (C4_Lookups[k] + 1)..(C4_Lookups[k + 1] - 1) :
            /\ elog[i].ev = "sleep"
            /\ elog[i].secs = LOOKUP_DELAY

=============================================================================
